---- MODULE Spec2Model ----
(***************************************************************************)
(* Hydraulic press simulator: the regression advisor (MLModel) with its    *)
(* process-wide coefficient cache, the React callers that drive it (App,   *)
(* InputPanel, AIPredictionPanel), input validation, and the four-phase    *)
(* cycle simulator.                                                        *)
(*                                                                         *)
(* The repository holds two iterations of MLModel and of its panel:        *)
(*   "basic"    src/src/utils/mlModel.ts        + part_001:588-657         *)
(*   "enhanced" src/src/utils/energyAnalysis.ts + part_001:172-250         *)
(* The variable `variant` fixes which one a behaviour runs.                *)
(*                                                                         *)
(* Units: lengths in 0.1 cm, loads in 0.1 ton, pressure loss in 0.1 bar,   *)
(* pump efficiency and R-squared in 0.01, rpm in 1.                        *)
(*                                                                         *)
(* JavaScript scheduling: a handler runs to completion, and the microtasks *)
(* it queues (continuations of awaits on settled promises) run before any  *)
(* other task.  Only a fetch response and a timer are separate tasks.  An  *)
(* action below is one such task with all the continuations it releases.   *)
(***************************************************************************)
EXTENDS Integers, Sequences, FiniteSets, TLC

VARIABLES
    variant,        \* which iteration of MLModel / AIPredictionPanel runs
    mounted,        \* App has rendered and its effects have run
    inputs,         \* App: useState inputs
    validation,     \* App: useState validation
    simPending,     \* App.runSimulation closures waiting on the 500 ms timer
    simRequests,    \* history: number of App.runSimulation calls past the guard
    simInvoked,     \* history: inputs Simulator.runSimulation was run with
    mlInvoked,      \* history: inputs MLModel.predict/suggestImprovements got
    coefficients,   \* MLModel.coefficients
    isLoading,      \* MLModel.isLoading
    calls,          \* MLModel calls: position and result of each
    reqs,           \* AIPredictionPanel.updatePredictions runs
    nextReq,        \* number of the next updatePredictions run
    prediction,     \* AIPredictionPanel: useState prediction
    suggestions,    \* AIPredictionPanel: useState suggestions
    modelInfo,      \* AIPredictionPanel: useState modelInfo
    panelLoading,   \* AIPredictionPanel: useState isLoading
    sim,            \* a Simulator instance
    run,            \* the runSimulation call in progress on it
    returned,       \* value of the last runSimulation call that returned
    firstRun,       \* history: per input, the data of the first run that returned
    advInput,       \* advisor on its own: the InputModel passed to MLModel
    advCoeffs,      \* advisor on its own: what getCoefficients returns
    goal,           \* advisor on its own: the Goal passed to suggestImprovements
    advice,         \* advisor on its own: what predict / suggestImprovements returned
    aggData,        \* energy aggregation on its own: the DataPoint[] passed in
    byPhase,        \* energy aggregation on its own: what the call returned
    suggestCall     \* one suggestImprovements call: its getCoefficients reads

appVars == <<mounted, inputs, validation, simPending, simRequests, simInvoked>>
mlVars == <<mlInvoked, coefficients, isLoading, calls, reqs, nextReq,
            prediction, suggestions, modelInfo, panelLoading>>
simVars == <<sim, run, returned, firstRun>>
advVars == <<advInput, advCoeffs, goal, advice>>
energyVars == <<aggData, byPhase>>
vars == <<variant, appVars, mlVars, simVars, advVars, energyVars, suggestCall>>

----------------------------------------------------------------------------
(* Bounds *)

MaxReq == 3         \* updatePredictions runs (mount + input edits)
MaxSimRuns == 1     \* App.runSimulation requests
MaxRunsPerSim == 2  \* runSimulation calls on one Simulator instance
MaxInstances == 2   \* Simulator instances constructed one after the other
IterationsPerStep == 25  \* simulatePhase loop iterations taken in one step

Variants == {"basic", "enhanced"}
Null == [id |-> "null"]

----------------------------------------------------------------------------
(* InputModel and the values a user can type *)

DefaultInputs ==
    [boreCm |-> 65, rodCm |-> 30, deadLoadTon |-> 20, holdingLoadTon |-> 80,
     motorRpm |-> 1800, pumpEfficiency |-> 90, systemLossBar |-> 50]

RequiredFields ==
    <<"boreCm", "rodCm", "deadLoadTon", "holdingLoadTon", "motorRpm",
      "pumpEfficiency", "systemLossBar">>

\* Text typed into a number field: a number, or text parseFloat turns to NaN.
Typed(n) == [isNum |-> TRUE, num |-> n]
NotANumber == [isNum |-> FALSE, num |-> 0]

TypedValues(field) ==
    CASE field = "boreCm" -> {Typed(30), Typed(65)}
      [] field = "rodCm" -> {Typed(30), Typed(70)}
      [] field = "motorRpm" -> {Typed(1800), Typed(-1800), NotANumber}
      [] field = "pumpEfficiency" -> {Typed(90), Typed(0), Typed(-50)}
      [] OTHER -> {}

EditableFields == {"boreCm", "rodCm", "motorRpm", "pumpEfficiency"}

\* parseFloat(value) || 0
ParseFloatOrZero(t) == IF t.isNum /\ t.num # 0 THEN t.num ELSE 0

----------------------------------------------------------------------------
(* ValidationUtils.validateInputs *)

\* !input[field] || input[field] === 0
FieldMissing(input, field) == input[field] = 0

ValidateInputs(input) ==
    LET filled == \A i \in 1..Len(RequiredFields) :
                     ~FieldMissing(input, RequiredFields[i])
        w1 == IF input.boreCm > 85 THEN <<"bore">> ELSE <<>>
        w2 == IF input.deadLoadTon > 30 THEN <<"deadLoad">> ELSE <<>>
        w3 == IF input.holdingLoadTon > 120 THEN <<"holdingLoad">> ELSE <<>>
        w4 == IF input.rodCm >= input.boreCm THEN <<"rod">> ELSE <<>>
        t1 == IF input.pumpEfficiency < 85 THEN <<"pump">> ELSE <<>>
        t2 == IF input.systemLossBar > 120 THEN <<"loss">> ELSE <<>>
        t3 == IF input.motorRpm < 1000 THEN <<"lowRpm">> ELSE <<>>
        t4 == IF input.motorRpm > 3000 THEN <<"highRpm">> ELSE <<>>
    IN  IF ~filled
        THEN [isValid |-> FALSE, warnings |-> <<"required">>, tips |-> <<>>]
        ELSE [isValid |-> ~(input.rodCm >= input.boreCm),
              warnings |-> w1 \o w2 \o w3 \o w4,
              tips |-> t1 \o t2 \o t3 \o t4]

----------------------------------------------------------------------------
(* RegressionCoefficients: the embedded fallback and what the API may send *)

Metrics == {"pressure", "efficiency", "cycleTime"}

\* A coefficient set, as far as the code inspects it:
\*   intercepts  pressure/efficiency/cycleTime/rSquared blocks are present, the
\*               three intercepts and rSquared.pressure are numbers
\*   hasMeta     the modelMetadata block is present
\*   rsq         the numeric values of the rSquared block (0.01 units)
\*   tdp         modelMetadata.trainingDataPoints (0 when absent)
\*   terms       every regression term read by the calculate* functions is a number
FALLBACK_COEFFS ==
    IF variant = "enhanced"
    THEN [id |-> "fallback", intercepts |-> TRUE, hasMeta |-> TRUE,
          rsq |-> [pressure |-> 92, efficiency |-> 89, cycleTime |-> 94],
          tdp |-> 10000, terms |-> TRUE]
    ELSE [id |-> "fallback", intercepts |-> TRUE, hasMeta |-> FALSE,
          rsq |-> [pressure |-> 87, efficiency |-> 92, cycleTime |-> 85],
          tdp |-> 0, terms |-> TRUE]

GoodRsq == [pressure |-> 95, efficiency |-> 90, cycleTime |-> 93]

Payload(id, intercepts, hasMeta, rsq, tdp, terms) ==
    [id |-> id, intercepts |-> intercepts, hasMeta |-> hasMeta, rsq |-> rsq,
     tdp |-> tdp, terms |-> terms]

\* JSON bodies the coefficient endpoint may answer with.
Payloads ==
    { Payload("good", TRUE, TRUE, GoodRsq, 5000, TRUE),
      Payload("edge", TRUE, TRUE,
              [pressure |-> 70, efficiency |-> 70, cycleTime |-> 70], 1001, TRUE),
      Payload("lowR2", TRUE, TRUE,
              [pressure |-> 50, efficiency |-> 90, cycleTime |-> 93], 5000, TRUE),
      Payload("fewPoints", TRUE, TRUE, GoodRsq, 1000, TRUE),
      Payload("noMeta", TRUE, FALSE, GoodRsq, 0, TRUE),
      Payload("noIntercept", FALSE, TRUE, GoodRsq, 5000, TRUE),
      Payload("partialR2", TRUE, TRUE, [pressure |-> 95], 5000, TRUE),
      Payload("v1Schema", TRUE, TRUE, GoodRsq, 5000, FALSE) }

\* How one fetch of /api/ml-coefficients ends.
FetchOutcomes ==
    { [kind |-> k, body |-> Null] : k \in {"networkError", "notOk", "badJson"} }
    \cup { [kind |-> "json", body |-> p] : p \in Payloads }

\* mlModel.ts validateCoefficients
ValidateCoefficientsBasic(coeffs) == coeffs.intercepts

\* energyAnalysis.ts validateCoefficients
ValidateCoefficients(coeffs) == coeffs.intercepts /\ coeffs.hasMeta

minRSquared == 70

\* energyAnalysis.ts validateModelQuality
ValidateModelQuality(coeffs) ==
    /\ \A m \in DOMAIN coeffs.rsq : coeffs.rsq[m] >= minRSquared
    /\ coeffs.hasMeta /\ coeffs.tdp > 1000

\* The quality log line calls toFixed on all three rSquared values.
LogThrows(coeffs) == ~({"pressure", "efficiency", "cycleTime"} \subseteq DOMAIN coeffs.rsq)

\* calculatePressureDetailed & co. call toFixed on every term of the block;
\* the basic calculatePressure & co. only multiply (NaN, no exception).
PredictThrows(coeffs) == variant = "enhanced" /\ ~coeffs.terms

maxRetries == 3

\* `while (retryCount < maxRetries)`
LoopContinuesTooLong(retryCount) == retryCount <= maxRetries
LoopContinues(retryCount) == retryCount < maxRetries

\* `if (retryCount < maxRetries) await new Promise(... setTimeout ...)`
WaitBeforeRetry(retryCount) == retryCount < maxRetries

\* `if (this.coefficients || this.isLoading) return;`
LoadGuardNoFlag(coeffs, loading) == coeffs # Null
LoadGuard(coeffs, loading) == coeffs # Null \/ loading

----------------------------------------------------------------------------
(* MLModel calls.  A call is named by the updatePredictions run that makes  *)
(* it and by the method called.                                            *)

Reqs == 1..MaxReq
Kinds == {"predict", "suggest", "info"}
CallIds == Reqs \X Kinds

NoCall ==
    [st |-> "none", retryCount |-> 0, attempts |-> 0, waits |-> 0,
     sawValid |-> FALSE, overlapped |-> FALSE, coeffs |-> Null]

NoReq == [st |-> "none", inputs |-> DefaultInputs]

\* The MLModel and panel state as one value, so that the steps of a task compose.
Cur ==
    [coefficients |-> coefficients, isLoading |-> isLoading, calls |-> calls,
     reqs |-> reqs, prediction |-> prediction, suggestions |-> suggestions,
     modelInfo |-> modelInfo, panelLoading |-> panelLoading]

Commit(m) ==
    /\ coefficients' = m.coefficients
    /\ isLoading' = m.isLoading
    /\ calls' = m.calls
    /\ reqs' = m.reqs
    /\ prediction' = m.prediction
    /\ suggestions' = m.suggestions
    /\ modelInfo' = m.modelInfo
    /\ panelLoading' = m.panelLoading

\* The call has its coefficients: the rest of predict / suggestImprovements /
\* getModelInfo runs (suggestImprovements re-reads the same cache in every
\* nested predict, all within this task).
Complete(m, c, k) ==
    LET threw == c[2] \in {"predict", "suggest"} /\ PredictThrows(k)
    IN  [m EXCEPT !.calls[c].st = IF threw THEN "threw" ELSE "done",
                  !.calls[c].coeffs = k]

\* loadCoefficients past its guard: isLoading = true and the first fetch is sent.
StartLoad(m, c) ==
    [m EXCEPT !.isLoading = TRUE,
              !.calls[c].st = "fetching",
              !.calls[c].retryCount = 0,
              !.calls[c].attempts = 1]

\* `return this.coefficients` with nothing cached: the caller reads the terms
\* of an object that has none
ReturnCached(coeffs) ==
    IF coeffs # Null THEN coeffs
    ELSE Payload("none", FALSE, FALSE, [pressure |-> 0], 0, FALSE)

\* `return this.coefficients || this.FALLBACK_COEFFS`
ReturnCoefficients(coeffs) == IF coeffs # Null THEN coeffs ELSE FALLBACK_COEFFS

\* getCoefficients, entered by call c.
Enter(m, c) ==
    IF m.coefficients # Null
    THEN Complete(m, c, ReturnCoefficients(m.coefficients))
    ELSE IF LoadGuard(m.coefficients, m.isLoading)
         THEN Complete([m EXCEPT !.calls[c].overlapped = TRUE], c,
                       ReturnCoefficients(m.coefficients))
         ELSE StartLoad(m, c)

\* The source getModelInfo reports.
SourceOf(k) == IF k = FALLBACK_COEFFS THEN "fallback" ELSE "api"

\* updatePredictions after `await MLModel.getModelInfo()` (enhanced panel).
AfterInfo(m, r) ==
    LET i == m.calls[<<r, "info">>]
    IN  IF m.reqs[r].st = "awaitInfo" /\ i.st = "done"
        THEN [m EXCEPT !.modelInfo = [source |-> SourceOf(i.coeffs), forReq |-> r],
                       !.panelLoading = FALSE,
                       !.reqs[r].st = "done"]
        ELSE m

\* updatePredictions after `await Promise.all([predict, suggestImprovements])`.
AfterAll(m, r) ==
    LET p == m.calls[<<r, "predict">>]
        s == m.calls[<<r, "suggest">>]
        stored == [m EXCEPT
                     !.prediction = [forReq |-> r, forInputs |-> m.reqs[r].inputs,
                                     coeffs |-> p.coeffs],
                     !.suggestions = [forReq |-> r, forInputs |-> m.reqs[r].inputs,
                                      coeffs |-> s.coeffs]]
    IN  IF m.reqs[r].st # "awaitAll" THEN AfterInfo(m, r)
        ELSE IF p.st = "threw" \/ s.st = "threw"
        THEN [m EXCEPT !.panelLoading = FALSE, !.reqs[r].st = "failed"]
        ELSE IF p.st = "done" /\ s.st = "done"
        THEN IF variant = "enhanced"
             THEN AfterInfo(Enter([stored EXCEPT !.reqs[r].st = "awaitInfo"],
                                  <<r, "info">>), r)
             ELSE [stored EXCEPT !.panelLoading = FALSE, !.reqs[r].st = "done"]
        ELSE m

\* The effect of AIPredictionPanel: updatePredictions() for the rendered inputs.
StartRequest(m, r, inp) ==
    LET m0 == [m EXCEPT !.panelLoading = TRUE,
                        !.reqs[r] = [st |-> "awaitAll", inputs |-> inp]]
        m1 == Enter(m0, <<r, "predict">>)
        m2 == Enter(m1, <<r, "suggest">>)
    IN  AfterAll(m2, r)

\* loadCoefficients has left its loop: fallback if nothing is cached,
\* isLoading = false, and the awaiting call goes on.
FinishLoad(m, c) ==
    LET k == IF m.coefficients = Null THEN FALLBACK_COEFFS ELSE m.coefficients
        m1 == [m EXCEPT !.coefficients = k, !.isLoading = FALSE]
    IN  AfterAll(Complete(m1, c, k), c[1])

\* loadCoefficients is at the top of its while loop.
LoopTop(m, c) ==
    IF LoopContinues(m.calls[c].retryCount)
    THEN [m EXCEPT !.calls[c].st = "fetching",
                   !.calls[c].attempts = m.calls[c].attempts + 1]
    ELSE FinishLoad(m, c)

\* The fetch of call c has settled with `out` (enhanced loadCoefficients).
SettledEnhanced(m, c, out) ==
    LET accepted == /\ out.kind = "json"
                    /\ ValidateCoefficients(out.body)
                    /\ ValidateModelQuality(out.body)
        broke == accepted /\ ~LogThrows(out.body)
        m1 == [m EXCEPT !.coefficients = IF accepted THEN out.body ELSE @,
                        !.calls[c].sawValid = @ \/ accepted]
        rc == m.calls[c].retryCount + 1
        m2 == [m1 EXCEPT !.calls[c].retryCount = rc]
    IN  IF broke THEN FinishLoad(m1, c)
        ELSE IF WaitBeforeRetry(rc)
        THEN [m2 EXCEPT !.calls[c].st = "backoff", !.calls[c].waits = @ + 1]
        ELSE LoopTop(m2, c)

\* The fetch of call c has settled with `out` (basic loadCoefficients).
SettledBasic(m, c, out) ==
    LET accepted == out.kind = "json" /\ ValidateCoefficientsBasic(out.body)
        m1 == [m EXCEPT !.coefficients = IF accepted THEN out.body ELSE FALLBACK_COEFFS,
                        !.calls[c].sawValid = @ \/ accepted]
    IN  FinishLoad(m1, c)

----------------------------------------------------------------------------
(* Numbers of the regression advisor.                                      *)
(* A JavaScript number is NaN, +Infinity, -Infinity or a finite value; a   *)
(* finite value is kept as an integer count of a fixed unit (1e-6 for the  *)
(* predicted metrics and sensitivities, 1e-4 for parameter values and R2   *)
(* averages), with real-number arithmetic truncated to that unit.          *)

Fin(v) == [k |-> "fin", v |-> v]
NaN == [k |-> "nan", v |-> 0]
PosInf == [k |-> "inf", v |-> 1]
NegInf == [k |-> "inf", v |-> -1]

Abs(n) == IF n < 0 THEN -n ELSE n
Sign(n) == IF n < 0 THEN -1 ELSE IF n > 0 THEN 1 ELSE 0

\* a + b
NAdd(a, b) ==
    CASE a.k = "nan" \/ b.k = "nan" -> NaN
      [] a.k = "inf" /\ b.k = "inf" -> IF a.v = b.v THEN a ELSE NaN
      [] a.k = "inf" -> a
      [] b.k = "inf" -> b
      [] OTHER -> Fin(a.v + b.v)

\* -a
NNeg(a) == IF a.k = "nan" THEN NaN ELSE [a EXCEPT !.v = -a.v]

\* a - b
NSub(a, b) == NAdd(a, NNeg(b))

\* Math.max(lo, x) and Math.min(hi, x) for finite lo, hi
NMax(lo, x) ==
    CASE x.k = "nan" -> NaN
      [] x.k = "inf" -> IF x.v > 0 THEN x ELSE Fin(lo)
      [] OTHER -> Fin(IF x.v > lo THEN x.v ELSE lo)
NMin(hi, x) ==
    CASE x.k = "nan" -> NaN
      [] x.k = "inf" -> IF x.v < 0 THEN x ELSE Fin(hi)
      [] OTHER -> Fin(IF x.v < hi THEN x.v ELSE hi)

\* x < c, x > c, x >= c for a finite c (false for NaN)
NLess(x, c) == (x.k = "fin" /\ x.v < c) \/ (x.k = "inf" /\ x.v < 0)
NGreater(x, c) == (x.k = "fin" /\ x.v > c) \/ (x.k = "inf" /\ x.v > 0)
NAtLeast(x, c) == (x.k = "fin" /\ x.v >= c) \/ (x.k = "inf" /\ x.v > 0)

\* Math.abs(x) < c and Math.abs(x) > c
NAbsLess(x, c) == x.k = "fin" /\ Abs(x.v) < c
NAbsGreater(x, c) == (x.k = "fin" /\ Abs(x.v) > c) \/ x.k = "inf"

\* floor(c * x / den) without forming c * x
MulDiv(c, x, den) == (c \div den) * x + ((c % den) * x) \div den

\* The first k decimal digits of r / d, for 0 <= r < d
RECURSIVE FracDigits(_, _, _)
FracDigits(r, d, k) ==
    IF k = 0 THEN 0
    ELSE ((r * 10) \div d) * 10^(k - 1) + FracDigits((r * 10) % d, d, k - 1)

\* n / d in units of 10^-k, truncated, for d # 0
DivDec(n, d, k) ==
    Sign(n) * Sign(d) *
        ((Abs(n) \div Abs(d)) * 10^k + FracDigits(Abs(n) % Abs(d), Abs(d), k))

\* n / d for integers, as a number in 10^-k units (JavaScript division)
NDivInt(n, d, k) ==
    IF d = 0 THEN (IF n = 0 THEN NaN ELSE IF n > 0 THEN PosInf ELSE NegInf)
    ELSE Fin(DivDec(n, d, k))

\* a / b for two numbers of the same unit, in 10^-k units
NDiv(a, b, k) ==
    CASE a.k = "nan" \/ b.k = "nan" -> NaN
      [] a.k = "inf" /\ b.k = "inf" -> NaN
      [] a.k = "inf" -> IF b.v >= 0 THEN a ELSE NNeg(a)
      [] b.k = "inf" -> Fin(0)
      [] OTHER -> IF b.v = 0
                  THEN (IF a.v = 0 THEN NaN ELSE IF a.v > 0 THEN PosInf ELSE NegInf)
                  ELSE Fin(DivDec(a.v, b.v, k))

\* The sum of a sequence of numbers (reduce((sum, val) => sum + val, 0))
RECURSIVE NSum(_)
NSum(seq) == IF seq = <<>> THEN Fin(0) ELSE NAdd(Head(seq), NSum(Tail(seq)))

----------------------------------------------------------------------------
(* MLModel: the regression and the advice computed from it.                *)
(* Input fields are integers: boreCm, rodCm, deadLoadTon, holdingLoadTon   *)
(* and systemLossBar in tenths, pumpEfficiency in hundredths, motorRpm in  *)
(* units.                                                                  *)

\* How many model units of a field make one unit of the source
Scale ==
    [boreCm |-> 10, rodCm |-> 10, deadLoadTon |-> 10, holdingLoadTon |-> 10,
     motorRpm |-> 1, pumpEfficiency |-> 100, systemLossBar |-> 10]

\* The linear terms of a coefficient set whose terms are numbers (1e-6 units);
\* FALLBACK_COEFFS of both iterations carry these values.
LinearCoeffs ==
    [pressure |->
        [intercept |-> 45200000, boreCm |-> -8500000, rodCm |-> 2100000,
         deadLoadTon |-> 12300000, holdingLoadTon |-> 8700000, motorRpm |-> 2000,
         pumpEfficiency |-> -15400000, systemLossBar |-> 1800000],
     efficiency |->
        [intercept |-> 650000, boreCm |-> 80000, rodCm |-> -20000,
         deadLoadTon |-> -10000, holdingLoadTon |-> -5000, motorRpm |-> 80,
         pumpEfficiency |-> 350000, systemLossBar |-> -8000],
     cycleTime |->
        [intercept |-> 12500000, boreCm |-> -1200000, rodCm |-> 300000,
         deadLoadTon |-> 800000, holdingLoadTon |-> 400000, motorRpm |-> -3000,
         pumpEfficiency |-> -2100000, systemLossBar |-> 150000]]

\* intercept + sum of coeffs[field] * inputs[field]
LinearTerms(input, metric) ==
    <<Fin(LinearCoeffs[metric].intercept)>> \o
    [i \in 1..Len(RequiredFields) |->
        Fin(MulDiv(LinearCoeffs[metric][RequiredFields[i]],
                   input[RequiredFields[i]], Scale[RequiredFields[i]]))]

\* mlModel.ts calculatePressure / calculateEfficiency / calculateCycleTime:
\* a term missing from the block is undefined, and undefined * x is NaN.
CalculateLinear(input, coeffs, metric) ==
    IF coeffs.terms THEN NSum(LinearTerms(input, metric)) ELSE NaN

\* energyAnalysis.ts calculatePressureDetailed: 0.8 bore^2, -0.0000005 rpm^2,
\* 0.001 bore rpm
calculatePressureDetailed(input, coeffs) ==
    NSum(LinearTerms(input, "pressure") \o
         << Fin(8000 * input.boreCm * input.boreCm),
            Fin((-(input.motorRpm * input.motorRpm)) \div 2),
            Fin(100 * input.boreCm * input.motorRpm) >>)

\* energyAnalysis.ts calculateEfficiencyDetailed: -0.15 pumpEff^2,
\* -0.0005 loss^2, 0.02 bore pumpEff
calculateEfficiencyDetailed(input, coeffs) ==
    NSum(LinearTerms(input, "efficiency") \o
         << Fin(-15 * input.pumpEfficiency * input.pumpEfficiency),
            Fin(-5 * input.systemLossBar * input.systemLossBar),
            Fin(20 * input.boreCm * input.pumpEfficiency) >>)

\* energyAnalysis.ts calculateCycleTimeDetailed: -0.05 bore^3, 5000 / rpm,
\* 0.8 * (bore / (rpm / 1000))
calculateCycleTimeDetailed(input, coeffs) ==
    NSum(LinearTerms(input, "cycleTime") \o
         << Fin(-50 * input.boreCm * input.boreCm * input.boreCm),
            NDivInt(5000, input.motorRpm, 6),
            NDivInt(80 * input.boreCm, input.motorRpm, 6) >>)

\* coeffs.rSquared[metric] in 1e-4 units; undefined enters arithmetic as NaN
RSquared(coeffs, metric) ==
    IF metric \in DOMAIN coeffs.rsq THEN Fin(100 * coeffs.rsq[metric]) ELSE NaN

\* getConfidenceLevel (rSquared in 1e-4 units)
getConfidenceLevel(rSquared) ==
    IF variant = "enhanced"
    THEN (IF NAtLeast(rSquared, 9200) THEN "high"
          ELSE IF NAtLeast(rSquared, 8500) THEN "medium" ELSE "low")
    ELSE (IF NAtLeast(rSquared, 9000) THEN "high"
          ELSE IF NAtLeast(rSquared, 8000) THEN "medium" ELSE "low")

\* The R2 value predict labels: weighted 0.4/0.3/0.3 (enhanced), mean (basic)
OverallRSquared(coeffs) ==
    LET p == RSquared(coeffs, "pressure")
        e == RSquared(coeffs, "efficiency")
        c == RSquared(coeffs, "cycleTime")
    IN  IF p.k = "nan" \/ e.k = "nan" \/ c.k = "nan" THEN NaN
        ELSE IF variant = "enhanced"
        THEN Fin((4 * p.v + 3 * e.v + 3 * c.v) \div 10)
        ELSE Fin((p.v + e.v + c.v) \div 3)

\* The three raw regression values of predict
RawPrediction(input, coeffs) ==
    IF variant = "enhanced"
    THEN [maxPressure |-> calculatePressureDetailed(input, coeffs),
          efficiency |-> calculateEfficiencyDetailed(input, coeffs),
          cycleTime |-> calculateCycleTimeDetailed(input, coeffs)]
    ELSE [maxPressure |-> CalculateLinear(input, coeffs, "pressure"),
          efficiency |-> CalculateLinear(input, coeffs, "efficiency"),
          cycleTime |-> CalculateLinear(input, coeffs, "cycleTime")]

\* predict(inputs) with the coefficients getCoefficients returned
Predict(input, coeffs) ==
    CHOOSE result \in
        { [maxPressure |-> NMax(0, raw.maxPressure),
           efficiency |-> NMax(0, NMin(1000000, raw.efficiency)),
           cycleTime |-> NMax(0, raw.cycleTime),
           confidence |-> getConfidenceLevel(OverallRSquared(coeffs))] :
          raw \in {RawPrediction(input, coeffs)} } : TRUE

\* calculateSensitivity / calculateEnhancedSensitivity: a finite difference of
\* two predict results, per unit of the parameter (delta 10 for motorRpm,
\* else 0.1), in 1e-6 units
Sensitivity(input, coeffs, parameter, target) ==
    LET delta == IF parameter = "motorRpm" THEN 10 ELSE Scale[parameter] \div 10
        modifiedInputs == [input EXCEPT ![parameter] = @ + delta]
    IN  CHOOSE sensitivity \in
            { IF d.k # "fin" THEN d
              ELSE IF parameter = "motorRpm" THEN Fin(DivDec(d.v, 10, 0))
              ELSE Fin(d.v * 10) :
              d \in {NSub(Predict(modifiedInputs, coeffs)[target],
                          Predict(input, coeffs)[target])} } : TRUE

\* A goal dimension: a percentage, or absent from the Goal object
NoTarget == [set |-> FALSE, pct |-> 0]
Target(pct) == [set |-> TRUE, pct |-> pct]

\* `if (goal.targetCycleTimePct)`: undefined and 0 are falsy
TruthyOrZero(t) == t.set
Truthy(t) == t.set /\ t.pct # 0

\* current * (1 + pct / 100) - current
TargetDiff(current, pct) ==
    CASE current.k = "nan" -> NaN
      [] current.k = "inf" ->
            NSub(IF 100 + pct = 0 THEN NaN
                 ELSE IF 100 + pct > 0 THEN current ELSE NNeg(current), current)
      [] OTHER -> Fin(MulDiv(current.v, 100 + pct, 100) - current.v)

\* The sites of suggestImprovements, in source order: parameter, metric
\* predicted, the rSquared entry labelled, and the test on |sensitivity|
\* (1e-6 units) that lets the site produce a suggestion.
CycleTimeSites ==
    << [parameter |-> "boreCm", target |-> "cycleTime", metric |-> "cycleTime", threshold |-> 1000],
       [parameter |-> "motorRpm", target |-> "cycleTime", metric |-> "cycleTime", threshold |-> 10],
       [parameter |-> "rodCm", target |-> "cycleTime", metric |-> "cycleTime", threshold |-> 1000],
       [parameter |-> "pumpEfficiency", target |-> "cycleTime", metric |-> "cycleTime", threshold |-> 1000] >>
PressureSites ==
    << [parameter |-> "boreCm", target |-> "maxPressure", metric |-> "pressure",
        threshold |-> IF variant = "enhanced" THEN 100000 ELSE 1000] >>
EfficiencySites ==
    << [parameter |-> "pumpEfficiency", target |-> "efficiency", metric |-> "efficiency",
        threshold |-> IF variant = "enhanced" THEN 10000 ELSE 1000] >>

\* The guard of a site with every sensitivity let through
SensitivityUsableAlways(site, sensitivity) == TRUE

\* The guard of a site: `if (Math.abs(s) < th) return null` in the enhanced
\* cycle-time optimizers, `if (Math.abs(s) > th) { ... }` everywhere else
SensitivityUsable(site, sensitivity) ==
    IF variant = "enhanced" /\ site.target = "cycleTime"
    THEN ~NAbsLess(sensitivity, site.threshold)
    ELSE NAbsGreater(sensitivity, site.threshold)

\* Math.max(lo, Math.min(hi, x)) of each parameter (1e-4 units)
ClampLow(input, parameter) ==
    CASE parameter = "boreCm" -> 30000
      [] parameter = "motorRpm" -> 5000000
      [] parameter = "rodCm" -> 10000
      [] parameter = "pumpEfficiency" -> 5000
ClampHigh(input, parameter) ==
    CASE parameter = "boreCm" -> 120000
      [] parameter = "motorRpm" -> 35000000
      [] parameter = "rodCm" -> input.boreCm * 1000 - 5000
      [] parameter = "pumpEfficiency" -> 9800
Clamp(input, parameter, x) ==
    NMax(ClampLow(input, parameter), NMin(ClampHigh(input, parameter), x))

\* The outOfRange expression of each parameter, on a value in 1e-4 units
OutOfRange(input, parameter, x) ==
    CASE parameter = "boreCm" -> NLess(x, 30000) \/ NGreater(x, 85000)
      [] parameter = "motorRpm" -> NLess(x, 10000000) \/ NGreater(x, 30000000)
      [] parameter = "rodCm" -> NLess(x, 10000) \/ NAtLeast(x, input.boreCm * 1000)
      [] parameter = "pumpEfficiency" -> NLess(x, 7000) \/ NGreater(x, 9500)

\* The value outOfRange is computed from: the clamped value in the enhanced
\* optimizers (newBore is already clamped), the unclamped one in mlModel.ts.
RangeTested(computed, clamped) == IF variant = "enhanced" THEN clamped ELSE computed

\* One site of suggestImprovements past the computation of its sensitivity.
\* `produced` tells whether a suggestion was pushed; sensitivity and computed
\* (current + diff / sensitivity, before clamping) are the locals of the
\* site, and the division is made only past the guard.
SiteResult(input, coeffs, site, current, pct, sensitivity) ==
    LET produced == SensitivityUsable(site, sensitivity)
        diff == TargetDiff(current[site.target], pct)
        currentValue == input[site.parameter] * (10000 \div Scale[site.parameter])
        change == IF produced THEN NDiv(diff, sensitivity, 4) ELSE NaN
        computed == NAdd(Fin(currentValue), change)
        clamped == Clamp(input, site.parameter, computed)
    IN  [parameter |-> site.parameter, target |-> site.target,
         sensitivity |-> sensitivity, threshold |-> site.threshold,
         produced |-> produced,
         computed |-> computed,
         currentValue |-> currentValue,
         suggestedValue |-> clamped,
         change |-> IF variant = "enhanced" THEN NSub(clamped, Fin(currentValue))
                    ELSE change,
         outOfRange |-> OutOfRange(input, site.parameter,
                                   RangeTested(computed, clamped)),
         rSquared |-> RSquared(coeffs, site.metric),
         confidence |-> getConfidenceLevel(RSquared(coeffs, site.metric))]

\* One site of suggestImprovements
EvalSite(input, coeffs, site, current, pct) ==
    CHOOSE result \in
        { SiteResult(input, coeffs, site, current, pct, sensitivity) :
          sensitivity \in {Sensitivity(input, coeffs, site.parameter, site.target)} } :
        TRUE

confidenceScore == [high |-> 3, medium |-> 2, low |-> 1]

\* suggestions.sort((a, b) => confidenceScore[b.confidence] -
\* confidenceScore[a.confidence]): a stable sort by descending score
SortByConfidence(seq) ==
    SelectSeq(seq, LAMBDA x : x.confidence = "high") \o
    SelectSeq(seq, LAMBDA x : x.confidence = "medium") \o
    SelectSeq(seq, LAMBDA x : x.confidence = "low")

\* .slice(0, 4)
Slice4(seq) == SubSeq(seq, 1, IF Len(seq) < 4 THEN Len(seq) ELSE 4)

\* The sites of one goal dimension, entered only for a truthy percentage
Visit(input, coeffs, sites, t, currentPrediction) ==
    IF Truthy(t)
    THEN [i \in 1..Len(sites) |->
             EvalSite(input, coeffs, sites[i], currentPrediction, t.pct)]
    ELSE <<>>

\* Every site suggestImprovements enters for the goal, in source order
VisitAll(input, coeffs, g) ==
    CHOOSE visited \in
        { Visit(input, coeffs, CycleTimeSites, g.targetCycleTimePct, currentPrediction)
          \o Visit(input, coeffs, PressureSites, g.targetMaxPressurePct, currentPrediction)
          \o Visit(input, coeffs, EfficiencySites, g.targetEfficiencyPct, currentPrediction) :
          currentPrediction \in {Predict(input, coeffs)} } : TRUE

\* suggestImprovements(inputs, goal) with the coefficients getCoefficients
\* returned: the sites visited, the suggestions pushed, the array returned
SuggestImprovements(input, coeffs, g) ==
    CHOOSE result \in
        { [visited |-> visited,
           pushed |-> pushed,
           returned |-> IF variant = "enhanced" THEN Slice4(SortByConfidence(pushed))
                        ELSE Slice4(pushed)] :
          visited \in {VisitAll(input, coeffs, g)},
          pushed \in {SelectSeq(VisitAll(input, coeffs, g), LAMBDA x : x.produced)} } :
        TRUE

\* Inputs the panel can hand to MLModel (handleInputChange stores any number)
SmallBore == [DefaultInputs EXCEPT !.boreCm = 12, !.rodCm = 5]
LowPower == [SmallBore EXCEPT !.motorRpm = 500, !.pumpEfficiency = 50]
Cleared == [DefaultInputs EXCEPT !.boreCm = 0, !.motorRpm = 0]
AdviceInputs == {DefaultInputs, SmallBore, LowPower, Cleared}

\* Inputs that are positive in every field with rodCm < boreCm
PositiveInput(input) ==
    /\ \A f \in DOMAIN input : input[f] > 0
    /\ input.rodCm < input.boreCm

TargetValues == {NoTarget, Target(0), Target(-10), Target(50)}
Goals ==
    [targetCycleTimePct : TargetValues, targetMaxPressurePct : TargetValues,
     targetEfficiencyPct : TargetValues]
NoGoal ==
    [targetCycleTimePct |-> NoTarget, targetMaxPressurePct |-> NoTarget,
     targetEfficiencyPct |-> NoTarget]

\* Coefficient sets that can be in MLModel.coefficients, or be returned by
\* getCoefficients: the fallback, and a payload loadCoefficients stores
Cacheable ==
    {FALLBACK_COEFFS} \cup
    {p \in Payloads :
        IF variant = "enhanced"
        THEN ValidateCoefficients(p) /\ ValidateModelQuality(p)
        ELSE ValidateCoefficientsBasic(p)}

NoPrediction ==
    [st |-> "none", maxPressure |-> NaN, efficiency |-> NaN, cycleTime |-> NaN,
     confidence |-> "low", rSquared |-> NaN]
NoSuggestions == [st |-> "none", visited |-> <<>>, pushed |-> <<>>, returned |-> <<>>]
NoAdvice == [prediction |-> NoPrediction, suggestions |-> NoSuggestions]

\* await MLModel.predict(inputs)
CallPredict ==
    /\ advice.prediction.st = "none"
    /\ advice' =
         [advice EXCEPT !.prediction =
            IF PredictThrows(advCoeffs) THEN [NoPrediction EXCEPT !.st = "threw"]
            ELSE [st |-> "returned", rSquared |-> OverallRSquared(advCoeffs)]
                 @@ Predict(advInput, advCoeffs)]
    /\ UNCHANGED <<advInput, advCoeffs, goal>>

\* await MLModel.suggestImprovements(inputs, goal)
CallSuggestImprovements ==
    /\ advice.suggestions.st = "none"
    /\ advice' =
         [advice EXCEPT !.suggestions =
            IF PredictThrows(advCoeffs) THEN [NoSuggestions EXCEPT !.st = "threw"]
            ELSE [st |-> "returned"] @@ SuggestImprovements(advInput, advCoeffs, goal)]
    /\ UNCHANGED <<advInput, advCoeffs, goal>>

----------------------------------------------------------------------------
(* IEEE-754 doubles of the simulation clock.                               *)
(* A double x with 0 <= x < 16 that is a multiple of 2^-59 is the triple   *)
(* <<l2, l1, l0>> of base-2^24 digits of x * 2^59.                         *)

B24 == 2^24

DZero == <<0, 0, 0>>
\* const dt = 0.01: the double 0x3F847AE147AE147B = 5764607523034235 * 2^-59
DT == <<20, 8053063, 11408507>>
\* n * 0.25 for small n (durations 1, 5, 2, 1.25 are exact doubles)
DQuarters(n) == <<n * 2^9, 0, 0>>

DLess(a, b) ==
    \/ a[1] < b[1]
    \/ a[1] = b[1] /\ a[2] < b[2]
    \/ a[1] = b[1] /\ a[2] = b[2] /\ a[3] < b[3]

\* The exact sum.
DAddExact(a, b) ==
    LET s0 == a[3] + b[3]
        s1 == a[2] + b[2] + (s0 \div B24)
        s2 == a[1] + b[1] + (s1 \div B24)
    IN  <<s2, s1 % B24, s0 % B24>>

\* Largest power of two not above n (1 <= n < 2^16).
Pow2Floor(n) == CHOOSE p \in {2^i : i \in 0..15} : p <= n /\ n < 2 * p

\* Spacing of doubles around x, in units of 2^-59 (2^59 = 2^11 * B24^2).
Ulp(x) == IF x[1] < 16 THEN 1 ELSE Pow2Floor(x[1]) \div 16

\* Round to nearest representable double, ties to even.
DRound(x) ==
    LET q == Ulp(x)
        r == x[3] % q
        down == x[3] - r
        odd == (down \div q) % 2 = 1
        up == 2 * r > q \/ (2 * r = q /\ odd)
        l0 == IF up THEN down + q ELSE down
        l1 == x[2] + (l0 \div B24)
    IN  <<x[1] + (l1 \div B24), l1 % B24, l0 % B24>>

\* Addition in exact arithmetic, without the rounding of a double.
DAddUnrounded(a, b) == DAddExact(a, b)
\* a + b in double arithmetic.
DAdd(a, b) == DRound(DAddExact(a, b))

\* Number(x.toFixed(2)), as the integer number of hundredths: toFixed takes
\* the exact value and rounds half up; floor(x * 100 + 1/2).
ToFixed2(x) ==
    LET p0 == x[3] * 100
        p1 == x[2] * 100 + (p0 \div B24)
        p2 == x[1] * 100 + (p1 \div B24)
    IN  (p2 + 2^10) \div 2^11

----------------------------------------------------------------------------
(* Simulator *)

\* Speed (mm/s), stroke (mm) and duration (quarter seconds) of each phase.
Phases ==
    << [name |-> "Phase 1: Fast Down", speedMmSec |-> 200, strokeMm |-> 200, quarters |-> 4],
       [name |-> "Phase 2: Working", speedMmSec |-> 10, strokeMm |-> 50, quarters |-> 20],
       [name |-> "Phase 3: Holding", speedMmSec |-> 0, strokeMm |-> 0, quarters |-> 8],
       [name |-> "Phase 4: Fast Up", speedMmSec |-> 200, strokeMm |-> 250, quarters |-> 5] >>

\* Inputs that pass validateInputs, for the simulator on its own.
SimInputs ==
    { DefaultInputs,
      [DefaultInputs EXCEPT !.boreCm = 30, !.rodCm = 10, !.pumpEfficiency = 50],
      [DefaultInputs EXCEPT !.deadLoadTon = 5, !.holdingLoadTon = 150, !.motorRpm = 3500] }

NoSim == [constructed |-> FALSE, input |-> DefaultInputs, calculationSteps |-> <<>>,
          runs |-> 0, instance |-> 0]
NoRun == [pc |-> "idle", phase |-> 0, time |-> DZero, t |-> DZero, elapsed |-> DZero,
          strokePos |-> 0, stroke |-> 0, data |-> <<>>]
NoReturn == [valid |-> FALSE, data |-> <<>>, steps |-> <<>>, call |-> 0,
             input |-> DefaultInputs, instance |-> 0]
NoFirstRun == [valid |-> FALSE, data |-> <<>>, instance |-> 0]

\* this.pistonArea / this.rodArea: HydroCalculator.pistonArea(boreCm) and
\* rodArea(boreCm, rodCm), kept as the arguments they are computed from.
PistonArea(input) == [of |-> "piston", boreCm |-> input.boreCm, rodCm |-> 0]
RodArea(input) == [of |-> "rod", boreCm |-> input.boreCm, rodCm |-> input.rodCm]

\* The load and the area simulatePhase is called with in each phase.
PhaseLoad(input, phase) ==
    IF phase \in {1, 4} THEN input.deadLoadTon ELSE input.holdingLoadTon
\* The areas the other way round: the rod area going down, the piston area up.
PhaseAreaSwapped(input, phase) == IF phase = 4 THEN PistonArea(input) ELSE RodArea(input)
PhaseArea(input, phase) == IF phase = 4 THEN RodArea(input) ELSE PistonArea(input)

\* The locals of runSimulation at its start, with a run counter that is not
\* reset (the locals of a simulation that carries its stroke over).
RunLocalsKept(s) == [time |-> DZero, strokePos |-> 25000 * s.runs]
\* let time = 0.0; let strokePos = 0.0;  (stroke in 0.01 mm)
RunLocals(s) == [time |-> DZero, strokePos |-> 0]

\* The DataPoint pushed by simulatePhase.  timeSec is Number(t.toFixed(2)) of
\* the double t.  strokeMm is in 0.01 mm: strokePos grows by speedMmSec * dt,
\* which is the double 2.0 or 0.1, and the sums stay within 1e-10 of a multiple
\* of 0.1, so toFixed(2) gives the exact decimal sum.  flowLpm, pressureBar and
\* the three powers are HydroCalculator functions of forceTon, area, speed and
\* pumpEfficiency only; the point carries these arguments.
DataPointOf(r, input) ==
    [timeSec |-> ToFixed2(r.t),
     strokeMm |-> r.stroke,
     speedMmSec |-> Phases[r.phase].speedMmSec,
     forceTon |-> PhaseLoad(input, r.phase),
     area |-> PhaseArea(input, r.phase),
     pumpEfficiency |-> input.pumpEfficiency]

\* Math.PI as the ratio PiNum / PiDen (within 1e-7 of it).
PiNum == 355
PiDen == 113

\* An area in m^2 is Math.PI * AreaTerm / 4e6 (diameters in 0.1 cm).
AreaTerm(area) == area.boreCm * area.boreCm - area.rodCm * area.rodCm

\* Number((c * x / den).toFixed(2)) read as an integer: c * x / den rounded
\* half up, without forming c * x.
RoundDiv(c, x, den) ==
    MulDiv(c, x, den) + (IF 2 * (((c % den) * x) % den) >= den THEN 1 ELSE 0)

\* pressureBar of a pushed point in 0.01 bar: (forceN / area) / 1e5 with
\* forceN = ton * 1000 * 9.81, for an area above 0.
PressureBar(dp) == RoundDiv(981 * 4000 * PiDen, dp.forceTon, PiNum * AreaTerm(dp.area))

\* flowLpm of a pushed point in 0.01 L/min: area * (speed / 1000) * 60 * 1000.
FlowLpm(dp) == RoundDiv(PiNum * AreaTerm(dp.area), 3 * dp.speedMmSec, 2000 * PiDen)

\* pumpPowerKW of a pushed point in 0.01 kW: hydKW / pumpEfficiency, with the
\* efficiency in 0.01 and above 0.
PumpPowerKW(dp) == RoundDiv(dp.forceTon * dp.speedMmSec, 981, 100 * dp.pumpEfficiency)

\* actuatorPowerKW of a pushed point in 0.01 kW:
\* speedMmSec > 0 ? forceN * (speedMmSec / 1000) / 1000 : 0
ActuatorPowerKW(dp) ==
    IF dp.speedMmSec > 0 THEN RoundDiv(dp.forceTon * dp.speedMmSec, 981, 10000) ELSE 0

\* new Simulator(input)
Construct(input) ==
    /\ run.pc = "idle" /\ sim.instance < MaxInstances
    /\ sim' = [constructed |-> TRUE, input |-> input,
               calculationSteps |-> <<"Piston Area", "Rod Area">>, runs |-> 0,
               instance |-> sim.instance + 1]
    /\ UNCHANGED <<run, returned, firstRun>>

\* The locals of runSimulation and of its first simulatePhase call.
RunStart(s) ==
    [pc |-> "loop", phase |-> 1, time |-> RunLocals(s).time,
     t |-> RunLocals(s).time, elapsed |-> DZero,
     strokePos |-> RunLocals(s).strokePos,
     stroke |-> RunLocals(s).strokePos, data |-> <<>>]

\* runSimulation, up to the first loop test
BeginRun ==
    /\ sim.constructed /\ run.pc = "idle" /\ sim.runs < MaxRunsPerSim
    /\ sim' = [sim EXCEPT !.calculationSteps = Append(@, Phases[1].name),
                          !.runs = @ + 1]
    /\ run' = RunStart(sim)
    /\ UNCHANGED <<returned, firstRun>>

\* elapsed < durationSec
LoopTest(r) == DLess(r.elapsed, DQuarters(Phases[r.phase].quarters))

\* One iteration of `for (elapsed = 0; elapsed < durationSec; elapsed += dt)`:
\* push the DataPoint, strokePos += speedMmSec * dt, t += dt, elapsed += dt.
Iterate(r, input) ==
    [r EXCEPT !.data = Append(@, DataPointOf(r, input)),
              !.stroke = @ + Phases[r.phase].speedMmSec,
              !.t = DAdd(r.t, DT),
              !.elapsed = DAdd(r.elapsed, DT)]

\* Up to n iterations of the loop, stopping when the loop test fails.
RECURSIVE IterateUpTo(_, _, _)
IterateUpTo(r, input, n) ==
    IF n = 0 \/ ~LoopTest(r) THEN r
    ELSE IterateUpTo(Iterate(r, input), input, n - 1)

\* simulatePhase: the loop, which runs synchronously, taken
\* IterationsPerStep iterations at a time.
PhaseIterate ==
    /\ run.pc = "loop"
    /\ LoopTest(run)
    /\ run' = IterateUpTo(run, sim.input, IterationsPerStep)
    /\ UNCHANGED <<sim, returned, firstRun>>

\* runSimulation after a phase: strokePos += 200, strokePos += 50, and nothing
\* after Holding (0.01 mm).
StrokeAdvance(phase) == IF phase = 1 THEN 20000 ELSE IF phase = 2 THEN 5000 ELSE 0

\* time = the t simulatePhase returned; strokePos += the phase's stroke; the
\* locals of the next simulatePhase call.
PhaseEntered(r) ==
    LET next == r.strokePos + StrokeAdvance(r.phase)
    IN  [r EXCEPT !.phase = @ + 1, !.time = r.t, !.elapsed = DZero,
                  !.strokePos = next, !.stroke = next]

\* simulatePhase returns t; runSimulation enters the next phase
NextPhase ==
    /\ run.pc = "loop" /\ run.phase < 4
    /\ ~LoopTest(run)
    /\ sim' = [sim EXCEPT !.calculationSteps = Append(@, Phases[run.phase + 1].name)]
    /\ run' = PhaseEntered(run)
    /\ UNCHANGED <<returned, firstRun>>

\* the last simulatePhase returns; runSimulation returns { data, steps }
ReturnRun ==
    /\ run.pc = "loop" /\ run.phase = 4
    /\ ~LoopTest(run)
    /\ returned' = [valid |-> TRUE, data |-> run.data, steps |-> sim.calculationSteps,
                    call |-> sim.runs, input |-> sim.input, instance |-> sim.instance]
    /\ firstRun' = IF firstRun[sim.input].valid THEN firstRun
                   ELSE [firstRun EXCEPT ![sim.input] =
                           [valid |-> TRUE, data |-> run.data, instance |-> sim.instance]]
    /\ run' = NoRun
    /\ UNCHANGED sim

----------------------------------------------------------------------------
(* App, InputPanel and AIPredictionPanel *)

NoResult == [forReq |-> 0]

\* First render of App: the validation effect and the panel's effect run.
Mount ==
    /\ ~mounted
    /\ mounted' = TRUE
    /\ validation' = ValidateInputs(inputs)
    /\ mlInvoked' = mlInvoked \cup {inputs}
    /\ Commit(StartRequest(Cur, nextReq, inputs))
    /\ nextReq' = nextReq + 1
    /\ UNCHANGED <<variant, advVars, energyVars, suggestCall, inputs, simPending, simRequests, simInvoked, simVars>>

\* InputPanel.handleInputChange, then both effects that depend on `inputs`.
EditInput(field, text) ==
    LET new == [inputs EXCEPT ![field] = ParseFloatOrZero(text)]
    IN  /\ mounted /\ nextReq <= MaxReq
        /\ inputs' = new
        /\ validation' = ValidateInputs(new)
        /\ mlInvoked' = mlInvoked \cup {new}
        /\ Commit(StartRequest(Cur, nextReq, new))
        /\ nextReq' = nextReq + 1
        /\ UNCHANGED <<variant, advVars, energyVars, suggestCall, mounted, simPending, simRequests, simInvoked, simVars>>

\* App.runSimulation up to `await new Promise(... setTimeout(resolve, 500))`
RequestSimulation ==
    /\ mounted /\ simRequests < MaxSimRuns
    /\ validation.isValid
    /\ simPending' = Append(simPending, inputs)
    /\ simRequests' = simRequests + 1
    /\ UNCHANGED <<variant, advVars, energyVars, suggestCall, mounted, inputs, validation, simInvoked, mlVars, simVars>>

\* The 500 ms timer fires: new Simulator(inputs).runSimulation() on the inputs
\* the closure captured.
SimulationTimer ==
    /\ simPending # <<>>
    /\ simInvoked' = simInvoked \cup {Head(simPending)}
    /\ simPending' = Tail(simPending)
    /\ UNCHANGED <<variant, advVars, energyVars, suggestCall, mounted, inputs, validation, simRequests, mlVars, simVars>>

\* A fetch of loadCoefficients settles (response, error or timeout).
FetchSettled(c, out) ==
    /\ calls[c].st = "fetching"
    /\ Commit(IF variant = "enhanced" THEN SettledEnhanced(Cur, c, out)
                                      ELSE SettledBasic(Cur, c, out))
    /\ UNCHANGED <<variant, advVars, energyVars, suggestCall, appVars, mlInvoked, nextReq, simVars>>

\* The backoff timer of loadCoefficients fires.
BackoffExpire(c) ==
    /\ calls[c].st = "backoff"
    /\ Commit(LoopTop(Cur, c))
    /\ UNCHANGED <<variant, advVars, energyVars, suggestCall, appVars, mlInvoked, nextReq, simVars>>

----------------------------------------------------------------------------
(* One suggestImprovements call and the event loop.  The call reads the     *)
(* coefficients through getCoefficients several times: for its own coeffs,  *)
(* for the current prediction, and twice in every sensitivity.  A fetch     *)
(* settles in a task of its own; the continuation of an await on a settled  *)
(* promise is a microtask, and the microtask queue is emptied before the    *)
(* next task starts.                                                        *)

\* getCoefficients reads of one call: coeffs, currentPrediction, and the
\* original and the modified prediction of sensitivities.
MaxReads == 4

NotCalled == [pc |-> "none", reads |-> <<>>, loadedDuring |-> FALSE]

\* A task may start whenever the engine is idle, also between two
\* continuations of the call.
TaskMayStartAnytime == TRUE
\* A task may start: no continuation of the call is queued as a microtask.
TaskMayStart == suggestCall.pc # "micro"

\* getCoefficients: `if (!this.coefficients) await this.loadCoefficients()`
\* past the guard of loadCoefficients sends a fetch and waits for the load;
\* otherwise `return this.coefficients || this.FALLBACK_COEFFS` follows
\* without waiting for anything but microtasks.
GetCoefficients(call) ==
    IF coefficients = Null /\ ~LoadGuard(coefficients, isLoading)
    THEN /\ isLoading' = TRUE
         /\ suggestCall' = [call EXCEPT !.pc = "awaitLoad"]
         /\ UNCHANGED coefficients
    ELSE /\ suggestCall' =
              [call EXCEPT !.reads = Append(@, ReturnCoefficients(coefficients)),
                           !.pc = IF Len(call.reads) + 1 = MaxReads
                                  THEN "returned" ELSE "micro"]
         /\ UNCHANGED <<coefficients, isLoading>>

\* MLModel.suggestImprovements(inputs, goal) is called: its first
\* getCoefficients.
StartSuggest ==
    /\ suggestCall.pc = "none"
    /\ GetCoefficients([suggestCall EXCEPT !.pc = "micro"])

\* The call goes on after an await: its next getCoefficients.
NextRead ==
    /\ suggestCall.pc = "micro"
    /\ GetCoefficients(suggestCall)

\* Another call (the predict of the same Promise.all) gets past the guard of
\* loadCoefficients and sends the fetch.
OtherCallLoads ==
    /\ TaskMayStart
    /\ ~LoadGuard(coefficients, isLoading)
    /\ isLoading' = TRUE
    /\ UNCHANGED <<coefficients, suggestCall>>

\* A fetch settles with a payload the enhanced loadCoefficients stores before
\* its log line throws; the loop goes on.
FetchStored(k) ==
    /\ TaskMayStart
    /\ variant = "enhanced" /\ isLoading
    /\ k \in Cacheable /\ k # FALLBACK_COEFFS /\ LogThrows(k)
    /\ coefficients' = k
    /\ UNCHANGED <<isLoading, suggestCall>>

\* The load ends: k is cached (the fallback only if nothing was stored),
\* isLoading = false, and a call that awaits the load goes on with
\* `return this.coefficients || this.FALLBACK_COEFFS`.
LoadCompletes(k) ==
    /\ TaskMayStart
    /\ isLoading
    /\ k \in Cacheable /\ (variant = "enhanced" => ~LogThrows(k))
    /\ coefficients' = IF k = FALLBACK_COEFFS /\ coefficients # Null THEN coefficients ELSE k
    /\ isLoading' = FALSE
    /\ suggestCall' =
          IF suggestCall.pc = "awaitLoad"
          THEN [suggestCall EXCEPT !.reads = Append(@, coefficients'),
                                   !.pc = IF Len(suggestCall.reads) + 1 = MaxReads
                                          THEN "returned" ELSE "micro",
                                   !.loadedDuring = TRUE]
          ELSE [suggestCall EXCEPT !.loadedDuring = @ \/ suggestCall.pc = "micro"]

----------------------------------------------------------------------------
(* runSimulation as a function of the input *)

\* The data runSimulation returns.
RECURSIVE RunFrom(_, _)
RunFrom(r, input) ==
    IF LoopTest(r) THEN RunFrom(IterateUpTo(r, input, IterationsPerStep), input)
    ELSE IF r.phase < 4 THEN RunFrom(PhaseEntered(r), input)
    ELSE r.data

\* Inputs with 0 < rodCm < boreCm, from a 0.1 cm rod in a 20 cm bore to a
\* 2.5 cm rod in a 3 cm bore.
RunInputs ==
    { [DefaultInputs EXCEPT !.boreCm = b, !.rodCm = r, !.deadLoadTon = d,
                            !.holdingLoadTon = h, !.pumpEfficiency = e] :
        b \in {30, 65, 200}, r \in {1, 10, 25}, d \in {5, 20}, h \in {80, 150},
        e \in {50, 90} }

\* new Simulator(input).runSimulation(), from the constructor to the return
SimulateOnce(input) ==
    /\ ~sim.constructed /\ ~returned.valid
    /\ sim' = [constructed |-> TRUE, input |-> input,
               calculationSteps |->
                   <<"Piston Area", "Rod Area">> \o [p \in 1..4 |-> Phases[p].name],
               runs |-> 1, instance |-> 1]
    /\ returned' = [valid |-> TRUE,
                    data |-> RunFrom(RunStart([NoSim EXCEPT !.input = input]), input),
                    steps |-> sim'.calculationSteps, call |-> 1, input |-> input,
                    instance |-> 1]
    /\ UNCHANGED <<run, firstRun>>

----------------------------------------------------------------------------
(* aggregateEnergyByPhase *)

\* The value of a property an object literal does not have.
Undefined == "undefined"

\* HydroCalculator.hydraulicPowerKW(pressureBar, flowLpm) of a pushed point, as
\* Number(hydKW.toFixed(2)) in 0.01 kW: (F / A / 1e5) * (A * v / 1000 * 60000)
\* / 600 with F = ton * 1000 * 9.81 is ton * v * 0.00981 kW for every area
\* other than 0; forceTon is in 0.1 t.
HydPowerKW(dp) == (2 * (dp.forceTon * dp.speedMmSec * 981) + 10000) \div 20000

\* What aggregateEnergyByPhase reads of a DataPoint simulatePhase pushed: the
\* literal has timeSec and hydPowerKW and no phase property.
Pushed(dp) == [phase |-> Undefined, timeSec |-> dp.timeSec, hydPowerKW |-> HydPowerKW(dp)]

SimulatedData(input) ==
    LET data == RunFrom(RunStart([NoSim EXCEPT !.input = input]), input)
    IN  [i \in 1..Len(data) |-> Pushed(data[i])]

\* dp.phase, without a default
PhaseAsTagged(dp) == dp.phase
\* const phase = dp.phase || 'Working'
PhaseOf(dp) == IF dp.phase = Undefined THEN "Working" ELSE dp.phase

\* const nextTime = i < data.length - 1 ? data[i + 1].timeSec : dp.timeSec
\* (i is the 1-based index; timeSec in 0.01 s)
NextTime(data, i) == IF i < Len(data) THEN data[i + 1].timeSec ELSE data[i].timeSec

\* The floor of dt: 0.001 s, in ms.
MinDtMs == 1
\* A dt that is the plain difference of the two times, in ms.
DtUnguarded(data, i) == (NextTime(data, i) - data[i].timeSec) * 10
\* const dt = Math.max(0.001, nextTime - dp.timeSec), in ms
Dt(data, i) ==
    IF DtUnguarded(data, i) > MinDtMs THEN DtUnguarded(data, i) ELSE MinDtMs

\* byPhase[phase] = { energyKJ: 0, duration: 0, totalPower: 0, count: 0 }
NewBucket(phase) == [phase |-> phase, energyKJ |-> 0, duration |-> 0, totalPower |-> 0, count |-> 0]

\* One iteration of the loop over data: the bucket of the point's phase is
\* created if it is missing (keys keep their insertion order) and gets the
\* point's energy (1e-5 kJ), dt (ms), power (0.01 kW) and a count of one.
AddPoint(buckets, data, i) ==
    LET phase == PhaseOf(data[i])
        known == \E k \in 1..Len(buckets) : buckets[k].phase = phase
        all == IF known THEN buckets ELSE Append(buckets, NewBucket(phase))
    IN  [k \in 1..Len(all) |->
           IF all[k].phase = phase
           THEN [all[k] EXCEPT !.energyKJ = @ + data[i].hydPowerKW * Dt(data, i),
                               !.duration = @ + Dt(data, i),
                               !.totalPower = @ + data[i].hydPowerKW,
                               !.count = @ + 1]
           ELSE all[k]]

\* Up to n iterations of `for (let i = 0; i < data.length; i++)`; the loop's
\* state is the index i and byPhase.
RECURSIVE AccumulateUpTo(_, _, _)
AccumulateUpTo(loop, data, n) ==
    IF n = 0 \/ loop.i > Len(data) THEN loop
    ELSE AccumulateUpTo([i |-> loop.i + 1,
                         buckets |-> AddPoint(loop.buckets, data, loop.i)], data, n - 1)

\* The whole loop, IterationsPerStep iterations at a time.
RECURSIVE Accumulate(_, _)
Accumulate(loop, data) ==
    IF loop.i > Len(data) THEN loop.buckets
    ELSE Accumulate(AccumulateUpTo(loop, data, IterationsPerStep), data)

\* parseFloat(x.toFixed(2)) of x = n / den >= 0, in 0.01 units
Round2(n, den) == (200 * n + den) \div (2 * den)

\* The argument of a call: a DataPoint[], or null / undefined; `simulated`
\* records that the array is one runSimulation returned.
Given(data) == [given |-> TRUE, data |-> data, simulated |-> FALSE]
Simulated(input) == [given |-> TRUE, data |-> SimulatedData(input), simulated |-> TRUE]
Missing == [given |-> FALSE, data |-> <<>>, simulated |-> FALSE]

\* if (!data || data.length === 0) return [];
ReturnsEarly(arg) == ~arg.given \/ Len(arg.data) = 0

\* The buckets aggregateEnergyByPhase has built when it returns.
Buckets(arg) == IF ReturnsEarly(arg) THEN <<>> ELSE Accumulate([i |-> 1, buckets |-> <<>>], arg.data)

\* Object.entries(byPhase).map(...): energyKJ, durationSec and avgPowerKW in
\* 0.01 units (val.count is never 0 here, so Math.max(1, val.count) is it).
Summary(val) ==
    [phase |-> val.phase,
     energyKJ |-> Round2(val.energyKJ, 100000),
     durationSec |-> Round2(val.duration, 1000),
     avgPowerKW |-> Round2(val.totalPower, 100 * (IF val.count > 1 THEN val.count ELSE 1))]

\* aggregateEnergyByPhase(data)
aggregateEnergyByPhase(arg) ==
    LET buckets == Buckets(arg)
    IN  [k \in 1..Len(buckets) |-> Summary(buckets[k])]

\* Longest hand-built DataPoint[] passed in.
MaxPoints == 3

\* Points with and without a phase tag, at equal, increasing or decreasing
\* times (0.01 s) and with and without power (0.01 kW).
SamplePoints ==
    [phase : {Undefined, "Working", "FastUp"}, timeSec : {0, 1}, hydPowerKW : {0, 150}]

SampleData == UNION { [1..n -> SamplePoints] : n \in 0..MaxPoints }

\* The arguments of the calls: hand-built sequences, no sequence, and what
\* runSimulation returns.
AggregateInputs ==
    {Given(data) : data \in SampleData} \cup {Missing}
        \cup {Simulated(input) : input \in SimInputs}

NotAggregated == [st |-> "none", buckets |-> <<>>, result |-> <<>>]

\* aggregateEnergyByPhase(data), as EnergyPanel calls it on render
CallAggregate ==
    /\ byPhase.st = "none"
    /\ byPhase' = [st |-> "returned", buckets |-> Buckets(aggData),
                   result |-> aggregateEnergyByPhase(aggData)]
    /\ UNCHANGED aggData

----------------------------------------------------------------------------
(* Specifications *)

InitCommon ==
    /\ variant \in Variants
    /\ mounted = FALSE
    /\ inputs = DefaultInputs
    /\ validation = [isValid |-> FALSE, warnings |-> <<>>, tips |-> <<>>]
    /\ simPending = <<>>
    /\ simRequests = 0
    /\ simInvoked = {}
    /\ mlInvoked = {}
    /\ coefficients = Null
    /\ isLoading = FALSE
    /\ calls = [c \in CallIds |-> NoCall]
    /\ reqs = [r \in Reqs |-> NoReq]
    /\ nextReq = 1
    /\ prediction = NoResult
    /\ suggestions = NoResult
    /\ modelInfo = NoResult
    /\ panelLoading = FALSE
    /\ sim = NoSim
    /\ run = NoRun
    /\ returned = NoReturn
    /\ firstRun = [i \in SimInputs |-> NoFirstRun]

\* The advisor-on-its-own variables when no such call is modelled
AdviceIdle ==
    /\ advInput = DefaultInputs
    /\ advCoeffs = FALLBACK_COEFFS
    /\ goal = NoGoal
    /\ advice = NoAdvice

\* The energy-aggregation variables when no such call is modelled
EnergyIdle ==
    /\ aggData = Missing
    /\ byPhase = NotAggregated
    /\ suggestCall = NotCalled

Init == InitCommon /\ AdviceIdle /\ EnergyIdle

Next ==
    \/ Mount
    \/ \E f \in EditableFields : \E text \in TypedValues(f) : EditInput(f, text)
    \/ RequestSimulation
    \/ SimulationTimer
    \/ \E c \in CallIds : \E out \in FetchOutcomes : FetchSettled(c, out)
    \/ \E c \in CallIds : BackoffExpire(c)

Spec == Init /\ [][Next]_vars

\* The advisor on its own: the panel's calls (mount and edits of the rod
\* diameter) and the load they trigger.  Every fetch settles (AbortSignal.timeout
\* bounds it) and every backoff timer fires.
LoadNext ==
    \/ Mount
    \/ \E text \in TypedValues("rodCm") : EditInput("rodCm", text)
    \/ \E c \in CallIds : \E out \in FetchOutcomes : FetchSettled(c, out)
    \/ \E c \in CallIds : BackoffExpire(c)

LoadSpec ==
    /\ Init /\ [][LoadNext]_vars
    /\ WF_vars(\E c \in CallIds : \E out \in FetchOutcomes : FetchSettled(c, out))
    /\ WF_vars(\E c \in CallIds : BackoffExpire(c))

SimInit == InitCommon /\ AdviceIdle /\ EnergyIdle

SimNext ==
    \/ \E input \in SimInputs : Construct(input) /\ UNCHANGED <<variant, advVars, energyVars, suggestCall, appVars, mlVars>>
    \/ BeginRun /\ UNCHANGED <<variant, advVars, energyVars, suggestCall, appVars, mlVars>>
    \/ PhaseIterate /\ UNCHANGED <<variant, advVars, energyVars, suggestCall, appVars, mlVars>>
    \/ NextPhase /\ UNCHANGED <<variant, advVars, energyVars, suggestCall, appVars, mlVars>>
    \/ ReturnRun /\ UNCHANGED <<variant, advVars, energyVars, suggestCall, appVars, mlVars>>

SimSpec == SimInit /\ [][SimNext]_vars

\* MLModel.predict and MLModel.suggestImprovements as functions of the input,
\* the goal and the coefficient set getCoefficients hands them.
AdviceInit ==
    /\ InitCommon
    /\ advInput \in AdviceInputs
    /\ advCoeffs \in Cacheable
    /\ goal \in Goals
    /\ advice = NoAdvice
    /\ EnergyIdle

AdviceNext ==
    \/ CallPredict /\ UNCHANGED <<variant, appVars, mlVars, simVars, energyVars, suggestCall>>
    \/ CallSuggestImprovements /\ UNCHANGED <<variant, appVars, mlVars, simVars, energyVars, suggestCall>>

AdviceSpec == AdviceInit /\ [][AdviceNext]_vars

\* aggregateEnergyByPhase as a function of the DataPoint[] it is given.
EnergyInit ==
    /\ InitCommon /\ AdviceIdle
    /\ aggData \in AggregateInputs
    /\ byPhase = NotAggregated
    /\ suggestCall = NotCalled

EnergyNext ==
    CallAggregate /\ UNCHANGED <<variant, appVars, mlVars, simVars, advVars, suggestCall>>

EnergySpec == EnergyInit /\ [][EnergyNext]_vars

\* One suggestImprovements call, the load and the event loop.
untouchedByCall ==
    <<variant, appVars, simVars, advVars, energyVars, mlInvoked, calls, reqs, nextReq,
      prediction, suggestions, modelInfo, panelLoading>>

CallNext ==
    \/ StartSuggest /\ UNCHANGED untouchedByCall
    \/ NextRead /\ UNCHANGED untouchedByCall
    \/ OtherCallLoads /\ UNCHANGED untouchedByCall
    \/ \E k \in Payloads : FetchStored(k) /\ UNCHANGED untouchedByCall
    \/ \E k \in Payloads \cup {FALLBACK_COEFFS} :
          LoadCompletes(k) /\ UNCHANGED untouchedByCall

CallSpec == Init /\ [][CallNext]_vars

\* runSimulation as a function of the input it is constructed with.
RunNext ==
    \E input \in RunInputs :
        SimulateOnce(input) /\ UNCHANGED <<variant, advVars, energyVars, suggestCall, appVars, mlVars>>

RunSpec == Init /\ [][RunNext]_vars

----------------------------------------------------------------------------
(* Properties *)

Fetching == {c \in CallIds : calls[c].st = "fetching"}
LoadEnded(c) == calls[c].attempts > 0 /\ calls[c].st \in {"done", "threw"}
Latest == nextReq - 1

\* C1: at most one coefficient fetch is in flight at any time, and a call
\* that arrives while a load is pending never sends a fetch of its own.
C1_SingleFetchInFlight ==
    /\ Cardinality(Fetching) <= 1
    /\ Cardinality({c \in CallIds : calls[c].st \in {"fetching", "backoff"}}) <= 1
    /\ \A c \in CallIds : calls[c].overlapped => calls[c].attempts = 0

\* C1 witness: a fetch is in flight and predict, suggestImprovements and
\* getModelInfo calls that arrived during the load have all returned.
C1_Witness ==
    /\ Cardinality(Fetching) = 1
    /\ \E r \in Reqs : \A k \in Kinds :
          calls[<<r, k>>].overlapped /\ calls[<<r, k>>].st = "done"

\* C2: whatever the coefficient fetch ends with, predict resolves with a
\* result and never rejects.
C2_PredictNeverRejects ==
    \A c \in CallIds : c[2] = "predict" => calls[c].st # "threw"

\* C3: the cache is filled only by a load in progress, and once it holds a
\* value no step sends a fetch or changes the cached coefficients.
C3_CacheFilledOnce ==
    [][ /\ (coefficients = Null /\ coefficients' # Null) => isLoading
        /\ coefficients # Null =>
              /\ coefficients' = coefficients
              /\ \A c \in CallIds : calls'[c].attempts = calls[c].attempts ]_vars

\* C4 (state part): a load run sends at most maxRetries fetches, waits only
\* between two fetches, and once it has ended isLoading is false and the cache
\* is set, to FALLBACK_COEFFS if no response passed validation.
C4_RunShape ==
    \A c \in CallIds :
        /\ calls[c].attempts <= maxRetries
        /\ calls[c].st = "backoff" =>
              calls[c].attempts < maxRetries /\ calls[c].waits = calls[c].attempts
        /\ calls[c].st = "fetching" => calls[c].waits = calls[c].attempts - 1
        /\ LoadEnded(c) =>
              /\ ~isLoading
              /\ coefficients # Null
              /\ calls[c].waits = calls[c].attempts - 1
              /\ ~calls[c].sawValid => coefficients = FALLBACK_COEFFS

Loading == {c \in CallIds : calls[c].st \in {"fetching", "backoff"}}

\* C4: every loadCoefficients run has the shape above and terminates with
\* isLoading false and the cache set.
C4_LoadBoundedAndTerminates ==
    /\ []C4_RunShape
    /\ (Loading # {}) ~> (Loading = {} /\ ~isLoading /\ coefficients # Null)

\* C4 witness: a run that used all three attempts, none validated, and ended
\* on the fallback.
C4_Witness ==
    \E c \in CallIds :
        /\ LoadEnded(c) /\ calls[c].attempts = maxRetries /\ calls[c].waits = 2
        /\ ~calls[c].sawValid /\ coefficients = FALLBACK_COEFFS /\ ~isLoading

\* What C5 requires of a cached API payload.
MeetsThresholds(p) ==
    /\ p.intercepts
    /\ \A m \in DOMAIN p.rsq : p.rsq[m] >= 70
    /\ p.tdp > 1000

\* C5: an API payload is cached only if it is structurally complete, every
\* rSquared value is at least 0.7 and trainingDataPoints exceeds 1000.
C5_OnlyQualifiedPayloadCached ==
    (coefficients # Null /\ coefficients # FALLBACK_COEFFS) => MeetsThresholds(coefficients)

\* The result the latest updatePredictions run computed.
ResultOf(r, kind) ==
    [forReq |-> r, forInputs |-> reqs[r].inputs, coeffs |-> calls[<<r, kind>>].coeffs]
SameResult(a, b) == a.forInputs = b.forInputs /\ a.coeffs = b.coeffs

\* C6: when every updatePredictions run has completed, the stored prediction
\* and suggestions are the ones computed by the newest run.
C6_NewestRequestWins ==
    ( /\ Latest >= 2
      /\ \A r \in 1..Latest : reqs[r].st \in {"done", "failed"}
      /\ reqs[Latest].st = "done" )
    => /\ prediction # NoResult /\ SameResult(prediction, ResultOf(Latest, "predict"))
       /\ suggestions # NoResult /\ SameResult(suggestions, ResultOf(Latest, "suggest"))

\* C7: no input with rodCm >= boreCm ever reaches Simulator.runSimulation,
\* MLModel.predict or MLModel.suggestImprovements.
C7_InvalidGeometryRejected ==
    \A x \in simInvoked \cup mlInvoked : x.rodCm < x.boreCm

\* C8: an input whose pumpEfficiency or motorRpm is not strictly positive is
\* reported invalid and never reaches Simulator.runSimulation.
C8_NonPositiveRejected ==
    /\ (mounted /\ validation.isValid) =>
          inputs.pumpEfficiency > 0 /\ inputs.motorRpm > 0
    /\ \A x \in simInvoked : x.pumpEfficiency > 0 /\ x.motorRpm > 0

NonDecreasing(data) ==
    \A i \in 1..(Len(data) - 1) : data[i].timeSec <= data[i + 1].timeSec

\* C9: the timeSec values of the returned DataPoint sequence are
\* non-decreasing and the last one is 9.25 s.
C9_TimeMonotoneEndsAt925 ==
    /\ NonDecreasing(run.data)
    /\ returned.valid =>
          /\ NonDecreasing(returned.data)
          /\ Len(returned.data) > 0
          /\ returned.data[Len(returned.data)].timeSec = 925

\* C9 witness: a run has returned, for a non-default input, with its last
\* sample at 9.25 s.
C9_Witness ==
    /\ returned.valid /\ sim.input # DefaultInputs
    /\ Len(returned.data) > 1
    /\ returned.data[1].timeSec = 0
    /\ returned.data[Len(returned.data)].timeSec = 925

SixSteps ==
    <<"Piston Area", "Rod Area", Phases[1].name, Phases[2].name, Phases[3].name,
      Phases[4].name>>

\* C10: every runSimulation call returns exactly the two construction-time
\* steps followed by the four phase steps, also a second call on one instance.
C10_StepsListPerRun ==
    returned.valid => returned.steps = SixSteps

\* C11: a run returns the same DataPoint sequence, element by element, as
\* the first run made with the same input, on this or on an earlier instance.
C11_RunsDeterministic ==
    (returned.valid /\ firstRun[returned.input].valid) =>
        /\ Len(returned.data) = Len(firstRun[returned.input].data)
        /\ \A i \in 1..Len(returned.data) :
              returned.data[i] = firstRun[returned.input].data[i]

\* C11 witness: the second run of a second instance has returned, for an
\* input whose first run was made on the first instance.
C11_Witness ==
    /\ returned.valid /\ returned.instance = 2 /\ returned.call = 2
    /\ firstRun[returned.input].valid /\ firstRun[returned.input].instance = 1
    /\ Len(returned.data) > 900
    /\ returned.data[Len(returned.data)].strokeMm > 0

\* The records of a sequence
Range(seq) == {seq[i] : i \in 1..Len(seq)}

\* C12: suggestImprovements returns at most four suggestions, in order of
\* non-increasing confidence, and no suggestion it built and left out has a
\* strictly higher confidence than one it returned.
C12_TopFourByConfidence ==
    advice.suggestions.st = "returned" =>
        LET ret == advice.suggestions.returned
            leftOut == Range(advice.suggestions.pushed) \ Range(ret)
        IN  /\ Len(ret) <= 4
            /\ \A i, j \in 1..Len(ret) :
                  i < j => confidenceScore[ret[i].confidence]
                           >= confidenceScore[ret[j].confidence]
            /\ \A x \in leftOut : \A i \in 1..Len(ret) :
                  confidenceScore[x.confidence] <= confidenceScore[ret[i].confidence]

\* C13: a bore suggestion (for a cycle-time or a max-pressure goal) whose
\* computed bore, current + diff / sensitivity, is below 3 cm carries
\* suggestedValue 3 and outOfRange true.
C13_LowBoreClampedAndFlagged ==
    advice.suggestions.st = "returned" =>
        \A x \in Range(advice.suggestions.pushed) :
            (x.parameter = "boreCm" /\ NLess(x.computed, 30000)) =>
                (x.suggestedValue = Fin(30000) /\ x.outOfRange)

\* The physical range of a parameter (1e-4 units)
PhysicalRange(input, parameter) ==
    CASE parameter = "boreCm" -> [lo |-> 30000, hi |-> 120000]
      [] parameter = "motorRpm" -> [lo |-> 5000000, hi |-> 35000000]
      [] parameter = "pumpEfficiency" -> [lo |-> 5000, hi |-> 9800]
      [] parameter = "rodCm" -> [lo |-> 10000, hi |-> input.boreCm * 1000 - 5000]

\* C14: for an input positive in every field with rodCm < boreCm, every
\* returned suggestion has its suggestedValue within the physical range of its
\* parameter: bore [3, 12], rpm [500, 3500], pump efficiency [0.5, 0.98],
\* rod [1, boreCm - 0.5].
C14_SuggestedValueInRange ==
    (advice.suggestions.st = "returned" /\ PositiveInput(advInput)) =>
        \A x \in Range(advice.suggestions.returned) :
            /\ x.suggestedValue.k = "fin"
            /\ x.suggestedValue.v >= PhysicalRange(advInput, x.parameter).lo
            /\ x.suggestedValue.v <= PhysicalRange(advInput, x.parameter).hi

\* The goal field behind each predicted metric
GoalField ==
    [cycleTime |-> "targetCycleTimePct", maxPressure |-> "targetMaxPressurePct",
     efficiency |-> "targetEfficiencyPct"]

\* The percentage of a goal dimension is 0, or the dimension is absent
ZeroOrAbsent(t) == ~t.set \/ t.pct = 0

\* C15: a goal dimension whose percentage is 0 or absent contributes no
\* suggestion, and the result is the empty list when all three are.
C15_ZeroGoalContributesNothing ==
    advice.suggestions.st = "returned" =>
        /\ \A x \in Range(advice.suggestions.pushed) \cup Range(advice.suggestions.returned) :
              ~ZeroOrAbsent(goal[GoalField[x.target]])
        /\ (\A f \in DOMAIN goal : ZeroOrAbsent(goal[f])) =>
              advice.suggestions.returned = <<>>

\* C15 witness: suggestImprovements returned for a goal with cycle time 0,
\* efficiency absent and max pressure -10 %, on an input whose cycle-time
\* sensitivities are usable: only the pressure suggestion came back.
C15_Witness ==
    /\ advice.suggestions.st = "returned"
    /\ variant = "basic" /\ advInput = DefaultInputs /\ advCoeffs = FALLBACK_COEFFS
    /\ goal.targetCycleTimePct = Target(0)
    /\ goal.targetEfficiencyPct = NoTarget
    /\ goal.targetMaxPressurePct = Target(-10)
    /\ Len(advice.suggestions.returned) = 1
    /\ advice.suggestions.returned[1].target = "maxPressure"
    /\ SensitivityUsable(CycleTimeSites[1],
                         Sensitivity(advInput, advCoeffs, "boreCm", "cycleTime"))

\* C16: a site whose sensitivity is negligible (|s| below the site's
\* threshold, exactly 0 included) pushes no suggestion, and diff / sensitivity
\* is never evaluated with a zero sensitivity.
C16_NegligibleSensitivitySkipped ==
    advice.suggestions.st = "returned" =>
        \A x \in Range(advice.suggestions.visited) :
            /\ NAbsLess(x.sensitivity, x.threshold) => ~x.produced
            /\ x.produced => x.sensitivity # Fin(0)
            /\ ~x.produced => x \notin Range(advice.suggestions.returned)

\* C16 witness: with a cycle-time goal, both predictions of every cycle-time
\* site clamp to 0 s (the raw regression value is negative), every sensitivity
\* is exactly 0 and nothing is returned.
C16_Witness ==
    /\ advice.suggestions.st = "returned"
    /\ Truthy(goal.targetCycleTimePct)
    /\ RawPrediction(advInput, advCoeffs).cycleTime.k = "fin"
    /\ RawPrediction(advInput, advCoeffs).cycleTime.v < 0
    /\ Len(advice.suggestions.visited) >= 4
    /\ \A i \in 1..4 : /\ advice.suggestions.visited[i].sensitivity = Fin(0)
                       /\ ~advice.suggestions.visited[i].produced
    /\ \A x \in Range(advice.suggestions.returned) : x.target # "cycleTime"

\* C17: every PredictionResult has 0 <= efficiency <= 1, maxPressure >= 0 and
\* cycleTime >= 0, whatever the input and the cached coefficient set.
C17_PredictionWithinRanges ==
    advice.prediction.st = "returned" =>
        /\ NAtLeast(advice.prediction.maxPressure, 0)
        /\ NAtLeast(advice.prediction.cycleTime, 0)
        /\ NAtLeast(advice.prediction.efficiency, 0)
        /\ ~NGreater(advice.prediction.efficiency, 1000000)

\* The regression cannot give a valid number for some metric: a term is
\* missing from the cached set, or a sum is NaN
NoValidRegression(input, coeffs) ==
    \/ ~coeffs.terms
    \/ \E m \in DOMAIN RawPrediction(input, coeffs) :
          RawPrediction(input, coeffs)[m].k = "nan"

\* C18: when the cached coefficients cannot produce a valid number for a
\* metric, predict returns numbers (from a physical heuristic) instead of NaN.
\* (The second half of the claim, that such a result is told apart by its
\* confidence or source, is about a result the first half requires.)
C18_HeuristicInsteadOfNaN ==
    (advice.prediction.st # "none" /\ NoValidRegression(advInput, advCoeffs)) =>
        /\ advice.prediction.st = "returned"
        /\ advice.prediction.maxPressure.k = "fin"
        /\ advice.prediction.efficiency.k = "fin"
        /\ advice.prediction.cycleTime.k = "fin"

\* The label of the thresholds 0.92 and 0.85 (R2 in 1e-4 units)
ConfidenceLabel(rSquared) ==
    IF NAtLeast(rSquared, 9200) THEN "high"
    ELSE IF NAtLeast(rSquared, 8500) THEN "medium" ELSE "low"

\* C19: the confidence label is 'high' for an R2 value >= 0.92, 'medium' for
\* one >= 0.85 and 'low' otherwise, both for the overall confidence of predict
\* (on its R2 average) and for the confidence of each suggestion (on the R2 of
\* its metric).
C19_ConfidenceThresholds ==
    /\ advice.prediction.st = "returned" =>
          advice.prediction.confidence = ConfidenceLabel(advice.prediction.rSquared)
    /\ advice.suggestions.st = "returned" =>
          \A x \in Range(advice.suggestions.pushed) :
              x.confidence = ConfidenceLabel(x.rSquared)

\* No fetch has delivered a payload that loadCoefficients stored
SourceUnreachable == \A c \in CallIds : ~calls[c].sawValid

\* The predict call of updatePredictions run r has left getCoefficients
PredictEnded(r) == calls[<<r, "predict">>].st \in {"done", "threw"}

\* What the predict call of run r returned
PredictResultOf(r) == Predict(reqs[r].inputs, calls[<<r, "predict">>].coeffs)

\* C20: with the coefficient source unreachable, every predict call computes
\* from FALLBACK_COEFFS, and two predict calls with the same input return the
\* same maxPressure, efficiency, cycleTime and confidence, whether they follow
\* the failing load or overlap it.
C20_FallbackDeterminism ==
    SourceUnreachable =>
        /\ \A r \in Reqs : PredictEnded(r) =>
              /\ calls[<<r, "predict">>].st = "done"
              /\ calls[<<r, "predict">>].coeffs = FALLBACK_COEFFS
        /\ \A r1, r2 \in Reqs :
              (PredictEnded(r1) /\ PredictEnded(r2)
               /\ reqs[r1].inputs = reqs[r2].inputs)
              => PredictResultOf(r1) = PredictResultOf(r2)

\* C20 witness: every fetch failed; the predict call that ran the failing
\* load, one that overlapped it and one made after it have all returned, and
\* the first and the last were given the same input.
C20_Witness ==
    /\ SourceUnreachable
    /\ \A r \in 1..3 : calls[<<r, "predict">>].st = "done"
    /\ calls[<<1, "predict">>].attempts > 0
    /\ calls[<<2, "predict">>].overlapped
    /\ ~calls[<<3, "predict">>].overlapped /\ calls[<<3, "predict">>].attempts = 0
    /\ reqs[1].inputs = reqs[3].inputs
    /\ reqs[2].inputs # reqs[1].inputs
    /\ PredictResultOf(1).maxPressure.k = "fin"
    /\ PredictResultOf(2) # PredictResultOf(1)

\* The DataPoints of `data` that simulatePhase pushed in phase p: the phases
\* differ in the speed and the area they are called with.
PointsOfPhase(data, input, p) ==
    { i \in 1..Len(data) : /\ data[i].speedMmSec = Phases[p].speedMmSec
                           /\ data[i].area = PhaseArea(input, p) }

\* The indices of the phases' samples follow each other in the order
\* FastDown, Working, Holding, FastUp.
PhasesInOrder(data, input) ==
    \A p \in 1..3 : \A i \in PointsOfPhase(data, input, p) :
        \A j \in PointsOfPhase(data, input, p + 1) : i < j

\* C26: a returned run holds 100, 500, 200 and 125 DataPoints of the phases
\* FastDown, Working, Holding and FastUp in this order, 925 in total; the
\* first has timeSec 0 and strokeMm 0 and consecutive points are 0.01 s apart.
C26_PhaseCounts925 ==
    returned.valid =>
      LET data == returned.data
          count == [p \in 1..4 |-> Cardinality(PointsOfPhase(data, returned.input, p))]
      IN  /\ count = <<100, 500, 200, 125>>
          /\ Len(data) = 925
          /\ PhasesInOrder(data, returned.input)
          /\ data[1].timeSec = 0 /\ data[1].strokeMm = 0
          /\ \A i \in 1..(Len(data) - 1) : data[i + 1].timeSec = data[i].timeSec + 1

\* export type Phase
PhaseTags == {"FastDown", "Working", "Holding", "FastUp"}

ResultPhases == {byPhase.result[k].phase : k \in 1..Len(byPhase.result)}

\* C21: for the DataPoint sequence runSimulation returns, aggregateEnergyByPhase
\* returns four summaries, one for each of FastDown, Working, Holding, FastUp.
C21_FourPhaseSummaries ==
    (byPhase.st = "returned" /\ aggData.simulated) =>
        /\ Len(byPhase.result) = 4
        /\ ResultPhases = PhaseTags

\* The tag a point is grouped under: its own, 'Working' when it has none.
TagOrWorking(dp) == IF dp.phase = Undefined THEN "Working" ELSE dp.phase

\* C22: aggregateEnergyByPhase returns the empty list for an empty or missing
\* sequence; for a non-empty one it returns one entry per distinct phase tag,
\* untagged points counting as 'Working', each from at least one sample.
C22_TotalOneEntryPerTag ==
    byPhase.st = "returned" =>
        IF ~aggData.given \/ aggData.data = <<>>
        THEN byPhase.result = <<>>
        ELSE LET tags == {TagOrWorking(aggData.data[i]) : i \in 1..Len(aggData.data)}
             IN  /\ ResultPhases = tags
                 /\ Len(byPhase.result) = Cardinality(tags)
                 /\ Len(byPhase.buckets) = Len(byPhase.result)
                 /\ \A k \in 1..Len(byPhase.buckets) :
                       /\ byPhase.buckets[k].phase = byPhase.result[k].phase
                       /\ byPhase.buckets[k].count >= 1
                       /\ byPhase.buckets[k].count =
                            Cardinality({i \in 1..Len(aggData.data) :
                               TagOrWorking(aggData.data[i]) = byPhase.buckets[k].phase})

\* C22 witness: a call has returned for a sequence with an untagged point, a
\* point tagged 'Working' and a point tagged 'FastUp': two entries.
C22_Witness ==
    /\ byPhase.st = "returned" /\ aggData.given
    /\ {aggData.data[i].phase : i \in 1..Len(aggData.data)} = {Undefined, "Working", "FastUp"}
    /\ Len(byPhase.result) = 2

\* The sum of f[lo..hi], by halves.
RECURSIVE SumRange(_, _, _)
SumRange(f, lo, hi) ==
    IF lo > hi THEN 0
    ELSE IF lo = hi THEN f[lo]
    ELSE SumRange(f, lo, (lo + hi) \div 2) + SumRange(f, (lo + hi) \div 2 + 1, hi)

\* max(0.001, nextTime - currentTime) of the pair (i, i + 1), in ms
PairDt(data, i) ==
    IF (data[i + 1].timeSec - data[i].timeSec) * 10 > 1
    THEN (data[i + 1].timeSec - data[i].timeSec) * 10 ELSE 1

PairDtSum(data) == SumRange([i \in 1..(Len(data) - 1) |-> PairDt(data, i)], 1, Len(data) - 1)
PairEnergySum(data) ==
    SumRange([i \in 1..(Len(data) - 1) |-> data[i].hydPowerKW * PairDt(data, i)],
             1, Len(data) - 1)
DurationSum == SumRange([k \in 1..Len(byPhase.buckets) |-> byPhase.buckets[k].duration],
                        1, Len(byPhase.buckets))
EnergySum == SumRange([k \in 1..Len(byPhase.buckets) |-> byPhase.buckets[k].energyKJ],
                      1, Len(byPhase.buckets))

PressuresOf(p) ==
    {PressureBar(returned.data[i]) : i \in PointsOfPhase(returned.data, returned.input, p)}
FlowsOf(p) ==
    {FlowLpm(returned.data[i]) : i \in PointsOfPhase(returned.data, returned.input, p)}
PowersOf(p) ==
    UNION { {HydPowerKW(returned.data[i]), PumpPowerKW(returned.data[i]),
             ActuatorPowerKW(returned.data[i])} :
            i \in PointsOfPhase(returned.data, returned.input, p) }
StrokesOf(p) ==
    {returned.data[i].strokeMm : i \in PointsOfPhase(returned.data, returned.input, p)}

SameWithinPhase ==
    \A p \in 1..4 : Cardinality(PressuresOf(p)) = 1 /\ Cardinality(FlowsOf(p)) = 1

HoldingAtRest ==
    /\ FlowsOf(3) = {0} /\ PowersOf(3) = {0}
    /\ Cardinality(StrokesOf(3)) = 1

\* C30 as claimed: in a returned run (every modelled input has 0 < rodCm <
\* boreCm) pressureBar and flowLpm are constant within each phase, the FastUp
\* points carry a strictly higher pressureBar and a strictly lower flowLpm than
\* the FastDown points, and the Holding points have no flow, no power and one
\* strokeMm.
C30_FastUpStrictlyHigherPressure ==
    returned.valid =>
        /\ SameWithinPhase
        /\ \A up \in PressuresOf(4) : \A down \in PressuresOf(1) : up > down
        /\ \A up \in FlowsOf(4) : \A down \in FlowsOf(1) : up < down
        /\ HoldingAtRest

\* C30: as above, with the FastUp pressureBar at least and the FastUp flowLpm
\* at most that of FastDown: the values are rounded to two decimals.
C30_FastUpPressureNotLower ==
    returned.valid =>
        /\ SameWithinPhase
        /\ \A up \in PressuresOf(4) : \A down \in PressuresOf(1) : up >= down
        /\ \A up \in FlowsOf(4) : \A down \in FlowsOf(1) : up <= down
        /\ HoldingAtRest

\* C30 witness: a run has returned for a 20 cm bore with a 0.1 cm rod; its
\* FastUp and FastDown points carry the same pressureBar, 6.25 bar, and the
\* FastUp flow is lower.
C30_Witness ==
    /\ returned.valid /\ returned.input.boreCm = 200 /\ returned.input.rodCm = 1
    /\ PressuresOf(4) = {625} /\ PressuresOf(1) = {625}
    /\ FlowsOf(3) = {0}
    /\ \E up \in FlowsOf(4) : \E down \in FlowsOf(1) : up < down

\* The load has completed: loadCoefficients has left isLoading false and a
\* coefficient set in the cache.
LoadCompleted == ~isLoading /\ coefficients # Null

\* C23: a predict or suggestImprovements call that started while a fetch was
\* in flight has computed with the coefficients the load ends up caching.
C23_OverlappedUsesLoadedCoefficients ==
    \A c \in CallIds :
        (/\ c[2] \in {"predict", "suggest"}
         /\ calls[c].overlapped /\ calls[c].st \in {"done", "threw"}
         /\ LoadCompleted)
        => calls[c].coeffs = coefficients

\* The panel shows its results: it is not loading and has a prediction.
ResultsShown == ~panelLoading /\ prediction.forReq # 0

\* C25: the source shown is 'api' only with coefficients from a validated API
\* response in use: getCoefficientsSource (rendered by the basic panel next to
\* its results) is not 'api' before a load has completed, and getModelInfo has
\* not reported 'fallback' when the load ends with API coefficients cached.
C25_SourceMatchesCoefficients ==
    /\ (variant = "basic" /\ ResultsShown /\ SourceOf(coefficients) = "api")
          => LoadCompleted
    /\ (variant = "enhanced" /\ modelInfo.forReq # 0 /\ modelInfo.source = "fallback"
        /\ LoadCompleted)
          => coefficients = FALLBACK_COEFFS

\* C24: all getCoefficients reads of one suggestImprovements call (its coeffs,
\* the current prediction, the predictions of the sensitivities) return one
\* and the same coefficient set, also when a load completes during the call.
C24_OneCoefficientSetPerCall ==
    \A i, j \in 1..Len(suggestCall.reads) : suggestCall.reads[i] = suggestCall.reads[j]

\* C24 witness: the call has started the load itself, the load has completed
\* with an API payload while the call was running, and the call has returned
\* after all its reads.
C24_Witness ==
    /\ suggestCall.pc = "returned" /\ suggestCall.loadedDuring
    /\ Len(suggestCall.reads) = MaxReads
    /\ suggestCall.reads[1] # FALLBACK_COEFFS

\* Suggestion.parameter ranges over these InputModel fields.
TunableParameters == {"boreCm", "rodCm", "motorRpm", "pumpEfficiency"}

\* The sites suggestImprovements has for a predicted metric.
SitesOf(target) ==
    CASE target = "cycleTime" -> CycleTimeSites
      [] target = "maxPressure" -> PressureSites
      [] target = "efficiency" -> EfficiencySites

\* A sensitivity above every threshold the sites of the metric test against.
NotNegligible(sensitivity, target) ==
    \A i \in 1..Len(SitesOf(target)) :
        NAbsGreater(sensitivity, SitesOf(target)[i].threshold)

\* C27: for each requested goal dimension, every tunable parameter whose
\* sensitivity to that metric is not negligible has a candidate suggestion
\* (one pushed before sorting and truncation) for that dimension.
C27_EveryParameterYieldsCandidate ==
    advice.suggestions.st = "returned" =>
        \A target \in DOMAIN GoalField : \A parameter \in TunableParameters :
            (/\ Truthy(goal[GoalField[target]])
             /\ NotNegligible(Sensitivity(advInput, advCoeffs, parameter, target), target))
            => \E x \in Range(advice.suggestions.pushed) :
                  x.parameter = parameter /\ x.target = target

\* a === b for two numbers: NaN equals nothing.
NumEqual(a, b) == a.k # "nan" /\ a = b

\* C29: every returned suggestion has suggestedValue = currentValue + change,
\* with currentValue the input's value of the parameter (1e-4 units).
C29_SuggestedIsCurrentPlusChange ==
    advice.suggestions.st = "returned" =>
        \A x \in Range(advice.suggestions.returned) :
            /\ x.currentValue = advInput[x.parameter] * (10000 \div Scale[x.parameter])
            /\ NumEqual(x.suggestedValue, NAdd(Fin(x.currentValue), x.change))
====
